---- MODULE Spec2Model ----
(***************************************************************************)
(* Model of the App component of src/react_forms/src/App.jsx: one          *)
(* controlled form whose three fields are bound to a single useState       *)
(* object, a change handler that installs a spread copy of that object,    *)
(* and a submit handler that suppresses the default action, logs the       *)
(* state and resets it.                                                    *)
(*                                                                         *)
(* JavaScript objects live in a heap (reference -> mapping) so that object *)
(* identity, in-place mutation and React's Object.is bail-out are visible. *)
(* One action is one dispatched event: the handler, followed by the        *)
(* re-render React flushes before it dispatches the next event.            *)
(***************************************************************************)
EXTENDS FiniteSets, Integers, Sequences, TLC

\* Bound on the number of submissions.
MaxSubmits == 3

\* Contents a user types into the subject input and the message textarea.
TextValues == {"", "a"}

\* Keys and values of the initialState literal.
InitialValues == [issueType |-> "", subject |-> "", message |-> ""]

Keys == DOMAIN InitialValues

\* A select whose first option is a placeholder with an empty value.
OptionValuesWithEmpty == <<"", "outage", "billing", "cancel">>

\* The option values of select#issueType, in document order.
OptionValues == <<"default", "outage", "billing", "cancel">>

\* The ids of the controls that carry onChange={handleChange}.
FieldIds == {"issueType", "subject", "message"}

\* e.target.value of a change event on the control with the given id.
InputValues(id) ==
  IF id = "issueType"
    THEN {OptionValues[i] : i \in DOMAIN OptionValues}
    ELSE TextValues

VARIABLES
  heap,          \* reference -> object (a mapping from key to string)
  initialState,  \* reference bound to initialState by the latest render
  formState,     \* reference bound to formState by the latest render
  shown,         \* control id -> value the control displays
  sink,          \* the latest record console.log was handed
  handoffs,      \* how many records console.log has been handed
  sinkOk,        \* whether the sink delivered the latest record
  e,             \* the event object of the latest dispatched event
  prevType,      \* the type of the event dispatched before e
  effects,       \* the effects of the latest handler, in execution order
  rerendered,    \* whether the body has run again since that handler
  submits,       \* how many submit events have been handled
  lastEdit,      \* per key, the latest edit since the last reset
  twin           \* a second, freshly created form given the same events

formVars == <<heap, initialState, formState, shown, sink, handoffs, sinkOk,
              e, prevType, effects, rerendered, submits, lastEdit>>

vars == <<formVars, twin>>

\* A fresh reference: the smallest one not in use.
Alloc(h) ==
  CHOOSE i \in 1..(Cardinality(DOMAIN h) + 1) :
    /\ i \notin DOMAIN h
    /\ \A j \in 1..(i - 1) : j \in DOMAIN h

\* {...obj, [k]: v}
Spread(obj, k, v) ==
  [j \in (DOMAIN obj) \cup {k} |-> IF j = k THEN v ELSE obj[j]]

\* What a control displays for the controlled value it is given.  A select
\* whose value matches no option displays its first option.
ShownValue(id, value) ==
  IF id = "issueType"
    THEN IF \E i \in DOMAIN OptionValues : OptionValues[i] = value
           THEN value
           ELSE OptionValues[1]
    ELSE value

\* The form as rendered from a state object.
Rendered(obj) == [id \in FieldIds |-> ShownValue(id, obj[id])]

\* The sink before its first hand-off.
NoRecord == [k \in {} |-> ""]

\* The event objects.
NoEvent == [type |-> "none", id |-> "", value |-> "", prevented |-> 0]

ChangeEvent(k, v) == [type |-> "change", id |-> k, value |-> v, prevented |-> 0]

SubmitEvent == [type |-> "submit", id |-> "", value |-> "", prevented |-> 0]

\* What a handler sees and acts on while it runs: the bindings of the render
\* it closes over, the heap, the state React will use for the next render
\* (hook), and the outside world (event object, sink).
Closure(ev) ==
  [heap |-> heap, formState |-> formState, initialState |-> initialState,
   hook |-> formState, e |-> ev, sink |-> sink, handoffs |-> handoffs,
   delivered |-> sinkOk, effects |-> <<>>]

\* e.preventDefault()
preventDefault(m) ==
  [m EXCEPT !.e.prevented = @ + 1,
            !.effects = Append(@, "preventDefault")]

\* console.log(ref): the sink is handed the object as it is now; ok is
\* whether the sink delivers it.  console.log returns normally either way.
consoleLog(m, ref, ok) ==
  [m EXCEPT !.sink = m.heap[ref],
            !.handoffs = @ + 1,
            !.delivered = ok,
            !.effects = Append(@, "sink")]

\* setFormState(ref)
setFormState(m, ref) ==
  [m EXCEPT !.hook = ref,
            !.effects = Append(@, "setFormState")]

\* Variants of handleSubmit with one slip each.
handleSubmitNoReset(m, ok) ==
  consoleLog(preventDefault(m), m.formState, ok)

handleSubmitLogFirst(m, ok) ==
  setFormState(preventDefault(consoleLog(m, m.formState, ok)), m.initialState)

handleSubmitLogsInitial(m, ok) ==
  setFormState(consoleLog(preventDefault(m), m.initialState, ok),
               m.initialState)

handleSubmitResetIfDelivered(m, ok) ==
  LET m1 == consoleLog(preventDefault(m), m.formState, ok)
  IN  IF m1.delivered THEN setFormState(m1, m1.initialState) ELSE m1

handleSubmitKeepsSubject(m, ok) ==
  LET m1 == consoleLog(preventDefault(m), m.formState, ok)
      r  == Alloc(m1.heap)
      m2 == [m1 EXCEPT !.heap = @ @@ (r :> Spread(m1.heap[m1.initialState],
                                     "subject",
                                     m1.heap[m1.formState].subject))]
  IN  setFormState(m2, r)

\* const handleSubmit = (e) => { e.preventDefault(); console.log(formState);
\*                               setFormState(initialState) }
handleSubmit(m, ok) ==
  setFormState(consoleLog(preventDefault(m), m.formState, ok), m.initialState)

\* Variants of handleChange with one slip each: spreading initialState,
\* a literal key instead of the computed one, writing into the current
\* state object, and a console.log left in the handler.
handleChangeLogs(m) ==
  LET r  == Alloc(m.heap)
      m1 == [m EXCEPT !.heap = @ @@ (r :> Spread(m.heap[m.formState],
                                                 m.e.id, m.e.value))]
  IN  setFormState(consoleLog(m1, r, m1.delivered), r)

handleChangeFromInitial(m) ==
  LET r  == Alloc(m.heap)
      m1 == [m EXCEPT !.heap = @ @@ (r :> Spread(m.heap[m.initialState],
                                                 m.e.id, m.e.value))]
  IN  setFormState(m1, r)

handleChangeLiteralKey(m) ==
  LET r  == Alloc(m.heap)
      m1 == [m EXCEPT !.heap = @ @@ (r :> Spread(m.heap[m.formState],
                                                 "id", m.e.value))]
  IN  setFormState(m1, r)

handleChangeInPlace(m) ==
  LET m1 == [m EXCEPT !.heap[m.formState] = Spread(@, m.e.id, m.e.value)]
  IN  setFormState(m1, m.formState)

\* const handleChange = (e) =>
\*   setFormState({...formState, [e.target.id]: e.target.value})
handleChange(m) ==
  LET r  == Alloc(m.heap)
      m1 == [m EXCEPT !.heap = @ @@ (r :> Spread(m.heap[m.formState],
                                                 m.e.id, m.e.value))]
  IN  setFormState(m1, r)

\* The component body run again after the handler: React bails out when the
\* new state is the current one (Object.is); otherwise the body builds a new
\* initialState object and useState returns the new state.  Objects no
\* longer referenced are dropped.
Render(m) ==
  IF m.hook = m.formState
    THEN m
    ELSE LET r  == Alloc(m.heap)
             h1 == m.heap @@ (r :> InitialValues)
         IN  [m EXCEPT !.heap = [o \in {m.hook, r} |-> h1[o]],
                       !.formState = m.hook,
                       !.initialState = r]

\* The next event ev as dispatched to a form that an earlier event left as m:
\* the handler closes over the bindings of the latest render.
Dispatch(m, ev) ==
  [m EXCEPT !.hook = m.formState, !.e = ev, !.effects = <<>>]

\* A form left as m, after one more change event and its re-render.
AfterChange(m, k, v) == Render(handleChange(Dispatch(m, ChangeEvent(k, v))))

\* A form left as m, after one more submit event and its re-render.
AfterSubmit(m, ok) == Render(handleSubmit(Dispatch(m, SubmitEvent), ok))

\* The FormState mapping of a form left as m.
Value(m) == m.heap[m.formState]

\* A form as its first render leaves it: useState(initialState) makes the
\* initialState object the state.
Fresh ==
  [heap |-> (1 :> InitialValues), formState |-> 1, initialState |-> 1,
   hook |-> 1, e |-> NoEvent, sink |-> NoRecord, handoffs |-> 0,
   delivered |-> TRUE, effects |-> <<>>]

\* No second form has been created.
NoTwin == [on |-> FALSE, m |-> Fresh, start |-> 0]

\* The state after an event whose handler and re-render left m.
Commit(m) ==
  /\ heap' = m.heap
  /\ formState' = m.formState
  /\ initialState' = m.initialState
  /\ shown' = Rendered(m.heap[m.formState])
  /\ sink' = m.sink
  /\ handoffs' = m.handoffs
  /\ sinkOk' = m.delivered
  /\ e' = m.e
  /\ prevType' = e.type
  /\ effects' = m.effects
  /\ rerendered' = FALSE

Init ==
  /\ heap = (1 :> InitialValues)
  /\ initialState = 1
  /\ formState = 1
  /\ shown = Rendered(InitialValues)
  /\ sink = NoRecord
  /\ handoffs = 0
  /\ sinkOk = TRUE
  /\ e = NoEvent
  /\ prevType = "none"
  /\ effects = <<>>
  /\ rerendered = FALSE
  /\ submits = 0
  /\ lastEdit = InitialValues
  /\ twin = NoTwin

\* A change event on the control with id k carrying value v.
HandleChange(k, v) ==
  /\ Commit(Render(handleChange(Closure(ChangeEvent(k, v)))))
  /\ lastEdit' = [lastEdit EXCEPT ![k] = v]
  /\ UNCHANGED submits

\* A submit event on the form; ok is whether the sink delivers the record.
HandleSubmit(ok) ==
  /\ handoffs < MaxSubmits
  /\ Commit(Render(handleSubmit(Closure(SubmitEvent), ok)))
  /\ lastEdit' = InitialValues
  /\ submits' = submits + 1

\* A body that keeps formState in a plain variable instead of useState.
RerenderLosesState ==
  LET r  == Alloc(heap)
      h1 == heap @@ (r :> InitialValues)
  IN  /\ heap' = [o \in {r} |-> h1[o]]
      /\ initialState' = r
      /\ formState' = r
      /\ shown' = Rendered(InitialValues)
      /\ rerendered' = TRUE
      /\ UNCHANGED <<sink, handoffs, sinkOk, e, prevType, effects, submits,
                     lastEdit>>

\* React calls the component body again with no state update pending.
Rerender ==
  LET r  == Alloc(heap)
      h1 == heap @@ (r :> InitialValues)
  IN  /\ heap' = [o \in {formState, r} |-> h1[o]]
      /\ initialState' = r
      /\ shown' = Rendered(heap[formState])
      /\ rerendered' = TRUE
      /\ UNCHANGED <<formState, sink, handoffs, sinkOk, e, prevType,
                     effects, submits, lastEdit>>

Next ==
  \/ \E k \in FieldIds : \E v \in InputValues(k) :
       HandleChange(k, v) /\ UNCHANGED twin
  \/ \E ok \in BOOLEAN : HandleSubmit(ok) /\ UNCHANGED twin
  \/ Rerender /\ UNCHANGED twin

Spec == Init /\ [][Next]_vars

\* The events alone, without re-renders that no event caused.
NextEvents ==
  \/ \E k \in FieldIds : \E v \in InputValues(k) :
       HandleChange(k, v) /\ UNCHANGED twin
  \/ \E ok \in BOOLEAN : HandleSubmit(ok) /\ UNCHANGED twin

SpecEvents == Init /\ [][NextEvents]_vars

\* Right after a submission a second form is created; from then on it is
\* given every event the first form is given.
StartTwin ==
  /\ e.type = "submit"
  /\ ~twin.on
  /\ twin' = [on |-> TRUE, m |-> Fresh, start |-> handoffs]
  /\ UNCHANGED formVars

ChangeBoth(k, v) ==
  /\ HandleChange(k, v)
  /\ twin' = IF twin.on THEN [twin EXCEPT !.m = AfterChange(@, k, v)] ELSE twin

SubmitBoth(ok) ==
  /\ HandleSubmit(ok)
  /\ twin' = IF twin.on THEN [twin EXCEPT !.m = AfterSubmit(@, ok)] ELSE twin

NextTwin ==
  \/ \E k \in FieldIds : \E v \in InputValues(k) : ChangeBoth(k, v)
  \/ \E ok \in BOOLEAN : SubmitBoth(ok)
  \/ StartTwin

SpecTwin == Init /\ [][NextTwin]_vars

TypeOK ==
  /\ formState \in DOMAIN heap
  /\ initialState \in DOMAIN heap
  /\ handoffs \in 0..MaxSubmits
  /\ e.type \in {"none", "change", "submit"}
\* The current FormState mapping.
State == heap[formState]

----------------------------------------------------------------------------
\* C1: a field edit of key k with value v leaves state[k] = v and every
\* other key with the value it had before the event.
C1_EditWritesOnlyTarget ==
  [][e'.type = "change" =>
       /\ heap'[formState'][e'.id] = e'.value
       /\ \A j \in Keys \ {e'.id} : heap'[formState'][j] = heap[formState][j]
    ]_vars

C1_Witness ==
  /\ e.type = "change"
  /\ State[e.id] = e.value
  /\ \E j \in Keys \ {e.id} : State[j] # InitialValues[j]

\* C2: after a submission FormState equals InitialState on every key.
C2_SubmitResets ==
  e.type = "submit" => State = InitialValues

C2_Witness ==
  /\ e.type = "submit"
  /\ sink # InitialValues
  /\ State = InitialValues

\* C3: the key set of FormState is always the InitialState key set.
C3_KeySetFixed ==
  DOMAIN State = Keys

C3_Witness ==
  /\ e.type = "change"
  /\ handoffs >= 1
  /\ State # InitialValues
  /\ DOMAIN State = Keys

\* C4: a submission performs exactly preventDefault (once), then the
\* hand-off to the sink, then the reset, in this order.
C4_SubmitOrder ==
  e.type = "submit" =>
    /\ effects = <<"preventDefault", "sink", "setFormState">>
    /\ e.prevented = 1

C4_Witness ==
  /\ e.type = "submit"
  /\ e.prevented = 1
  /\ Len(effects) = 3
  /\ sink # InitialValues

\* C5: on a submission the sink is handed FormState as it stood before the
\* reset, that is, per key the latest edit since the last reset.
C5_SinkGetsCurrent ==
  [][handoffs' # handoffs =>
       /\ sink' = heap[formState]
       /\ sink' = lastEdit
    ]_vars

C5_Witness ==
  /\ e.type = "submit"
  /\ handoffs >= 2
  /\ sink.issueType = "billing"
  /\ sink.subject # ""
  /\ State = InitialValues
\* C6: the reset is unconditional: every submission resets FormState to
\* InitialState, whether the sink delivered the record or failed to.
C6_ResetWhateverTheSink ==
  \A ok \in BOOLEAN :
    (e.type = "submit" /\ sinkOk = ok) =>
      /\ State = InitialValues
      /\ effects[Len(effects)] = "setFormState"

C6_Witness ==
  /\ e.type = "submit"
  /\ ~sinkOk
  /\ sink # InitialValues
  /\ State = InitialValues

\* C7: no edit is lost: whatever re-renders fall between the handlers, every
\* key holds the latest edit since the last reset, or its initial value.
C7_NoLostUpdate ==
  State = lastEdit

C7_Witness ==
  /\ e.type = "change"
  /\ prevType = "change"
  /\ rerendered
  /\ handoffs >= 1
  /\ State.subject # ""
  /\ State.message # ""
  /\ State.issueType # ""

\* C8: every control displays FormState's entry for its id, and after a
\* submission every control displays what it displayed at form creation.
C8_ShownIsFormState ==
  /\ \A id \in FieldIds : shown[id] = State[id]
  /\ e.type = "submit" => shown = Rendered(InitialValues)

\* C9: a submission that directly follows a submission leaves FormState as
\* the first one left it, equal to InitialState.
C9_SubmitIdempotent ==
  [][(e.type = "submit" /\ handoffs' # handoffs) =>
       /\ heap'[formState'] = heap[formState]
       /\ heap'[formState'] = InitialValues
    ]_vars

C9_Witness ==
  /\ e.type = "submit"
  /\ prevType = "submit"
  /\ handoffs >= 2
  /\ State = InitialValues

\* C10: no event changes an object in place, and the initialState object of
\* the current render always holds the original values.
C10_NoInPlaceMutation ==
  /\ [][\A o \in (DOMAIN heap) \cap (DOMAIN heap') : heap'[o] = heap[o]]_vars
  /\ [](heap[initialState] = InitialValues)

C10_Witness ==
  /\ e.type = "change"
  /\ prevType = "submit"
  /\ State # InitialValues
  /\ heap[initialState] = InitialValues
\* C12: the sink is called once per submit event and by nothing else: the
\* number of hand-offs is the number of submit events handled, and a field
\* edit calls neither the sink nor preventDefault.
C12_SinkOnlyOnSubmit ==
  /\ [](handoffs = submits)
  /\ [][e'.type = "change" =>
          /\ handoffs' = handoffs
          /\ sink' = sink
          /\ e'.prevented = 0
          /\ effects' = <<"setFormState">>
       ]_vars

C12_Witness ==
  /\ e.type = "change"
  /\ prevType = "change"
  /\ submits = 2
  /\ handoffs = 2
  /\ State # sink

\* C13: issueType is always '' or one of the option values, and a state
\* whose issueType has been edited returns to InitialState only by a submit.
C13_IssueTypeValues ==
  /\ [](State.issueType \in
          {""} \cup {OptionValues[i] : i \in DOMAIN OptionValues})
  /\ [][(State.issueType # "" /\ heap'[formState'] = InitialValues) =>
          submits' = submits + 1
       ]_vars

C13_Witness ==
  /\ e.type = "submit"
  /\ sink.issueType = "cancel"
  /\ sink.subject = ""
  /\ sink.message = ""
  /\ State = InitialValues
\* C14: from every reachable state, two field edits of different keys give
\* the same FormState in either order, and a second edit of the same key
\* overrides the first, so that repeating an edit changes nothing.
C14_EditsCompose ==
  LET m == Closure(e)
  IN  /\ \A k1 \in FieldIds : \A k2 \in FieldIds \ {k1} :
           \A v1 \in InputValues(k1) : \A v2 \in InputValues(k2) :
             Value(AfterChange(AfterChange(m, k1, v1), k2, v2))
               = Value(AfterChange(AfterChange(m, k2, v2), k1, v1))
      /\ \A k \in FieldIds : \A v1 \in InputValues(k) :
           \A v2 \in InputValues(k) :
             Value(AfterChange(AfterChange(m, k, v1), k, v2))
               = Value(AfterChange(m, k, v2))

C14_Witness ==
  /\ e = ChangeEvent("message", "a")
  /\ prevType = "change"
  /\ State = [issueType |-> "", subject |-> "a", message |-> "a"]
  /\ submits = 0
\* C11: a form that has just been submitted and a freshly created form,
\* given the same events from then on, hold the same FormState after every
\* event and hand the same records to the sink.
C11_SubmittedIsFresh ==
  twin.on =>
    /\ Value(twin.m) = State
    /\ Rendered(Value(twin.m)) = shown
    /\ twin.m.handoffs = handoffs - twin.start
    /\ twin.m.handoffs > 0 => twin.m.sink = sink

C11_Witness ==
  /\ twin.on
  /\ twin.m.handoffs >= 1
  /\ twin.m.sink # InitialValues
  /\ e.type = "change"
  /\ State # InitialValues
====
